---- MODULE Spec2Model ----
(***************************************************************************)
(* Inference scheduling and result reconciliation for Amazon Lookout for   *)
(* Equipment, as driven by l4e_notebooks/5_inference_scheduling.ipynb:     *)
(* the lifecycle of the remote inference scheduler, the wait for the first *)
(* inference execution, and the aggregation of the execution results.      *)
(***************************************************************************)
EXTENDS Integers, Sequences, FiniteSets, TLC

(***************************************************************************)
(* Bounds of the model.                                                    *)
(***************************************************************************)
NumSchedules == 3

\* Inference executions the scheduler fires, at fire times 1..MaxExec.
MaxExec == 2

\* Timestamps of the rows of the results, 1..MaxTs.
MaxTs == 2

\* Data ingestion jobs the service is asked for.
MaxJobs == 3

Names == 1..NumSchedules

\* Two scheduler names per model: names 1 and 2 are built on model 1,
\* name 3 on model 2 (the constructor fixes scheduler_name and model_name).
ModelOf(n) == (n + 1) \div 2

\* DATA_UPLOAD_FREQUENCY values used as the schedule configuration.
Configs == {"PT5M", "PT1H"}

ScheduleStates == {"UNCREATED", "RUNNING", "STOPPED", "DELETED"}

NoSchedule == [status |-> "NONE", config |-> "NONE"]

VARIABLES
    state,      \* controller-side ScheduleState of each scheduler object
    params,     \* configuration held by each scheduler object (set_parameters)
    remote,     \* the service's registry of inference schedulers
    lastOp,     \* the last call made and what it returned
    executions, \* the service's inference executions, by fire time
    view,       \* scheduler.execution_summaries
    listArgs,   \* filters of the last list_inference_executions call
    listResult, \* what the last list_inference_executions call returned
    repeats,    \* calls with these filters since the service last changed
    wait_pc,    \* position in the wait for the first execution
    execution_summaries,    \* the notebook's execution_summaries
    usedArgs,   \* filters the wait has passed to list so far
    lastSleep,  \* seconds of the wait's last time.sleep
    objects,    \* the results.jsonl of each execution, as lines
    agg_pc,     \* position in the cell that downloads and merges results
    agg_i,      \* index of the execution summary the cell is at
    results_json,   \* the records read so far
    results_df, \* the dataframe of all the results
    jobs,       \* the service's data ingestion jobs, by job id
    response,   \* what lookout_dataset.ingest_data returned
    data_ingestion_job_id,  \* the job the monitoring cell polls
    data_ingestion_status,  \* the status it read last
    ing_pc,     \* position in the ingestion: launch, monitor, done
    starts,     \* StartDataIngestionJob calls of the current run
    ing_slept,  \* seconds of the monitoring cell's last time.sleep
    res_cfg,    \* the parameters the scheduler was set up with
    res_fire,   \* the time the scheduler woke up last
    input_files,    \* the files in the input location at that time
    expected_key,   \* the file name the scheduler looked for
    matched,    \* the files it found and ingested
    calls       \* the lifecycle call each caller has in progress, if any

lifeVars == <<state, params, remote>>

envVars == <<executions, objects>>

listVars == <<view, listArgs, listResult, repeats>>

waitVars == <<wait_pc, execution_summaries, usedArgs, lastSleep>>

aggVars == <<agg_pc, agg_i, results_json, results_df>>

resVars == <<res_cfg, res_fire, input_files, expected_key, matched>>

callVars == <<calls>>

ingVars == <<jobs, response, data_ingestion_job_id, data_ingestion_status,
             ing_pc, starts, ing_slept>>

vars == <<state, params, remote, lastOp, executions, view, listArgs,
          listResult, repeats, wait_pc, execution_summaries, usedArgs,
          lastSleep, objects, agg_pc, agg_i, results_json, results_df,
          jobs, response, data_ingestion_job_id, data_ingestion_status,
          ing_pc, starts, ing_slept, res_cfg, res_fire, input_files,
          expected_key, matched, calls>>

(***************************************************************************)
(* The remote service, as the notebook documents it.                       *)
(***************************************************************************)

\* Mutant: the service creates the scheduler without starting it.
CreatedStatusIdle == "PENDING"

\* "The CreateInferenceScheduler API creates a scheduler and starts it".
CreatedStatus == "RUNNING"

\* Mutant: the service only rejects a second scheduler of the same name.
ModelHasSchedulerByName(r, n) == r[n].status # "NONE"

\* "note that you can only have one scheduler per model".
ModelHasScheduler(r, n) ==
    \E k \in Names : ModelOf(k) = ModelOf(n) /\ r[k].status # "NONE"

\* Mutant: a running scheduler can be deleted.
CanDeleteAny(st) == st \in {"RUNNING", "STOPPED"}

\* Mutant: the test of the state is inverted.
CanDeleteInverted(st) == st # "STOPPED"

\* "You can delete a stopped scheduler you have no more use of".
CanDelete(st) == st = "STOPPED"

\* "stop an already running inference scheduler".
CanStop(st) == st = "RUNNING"

\* Mutant: start is accepted on every schedule that is not running.
CanStartIdle(st) == st \in {"STOPPED", "DELETED"}

\* "You can restart any STOPPED inference scheduler".
CanStart(st) == st = "STOPPED"

\* A schedule exists when it was created and not deleted.
Exists(st) == st \in {"RUNNING", "STOPPED"}

Call(op, n, transport, outcome) ==
    [op |-> op, name |-> n, before |-> state[n],
     transport |-> transport, outcome |-> outcome]

\* The scheduler object the notebook lists and aggregates.
Observed == 1

Fires == 1..MaxExec

None == 0

\* START_TIME_FOR_INFERENCE_EXECUTIONS, END_TIME_FOR_INFERENCE_EXECUTIONS
\* and EXECUTION_STATUS: executions after start, before end, in a status.
Filters ==
    [start : {None, 1}, end : {None, 2}, status : {"ANY", "SUCCESS"}]

NoFilter == [start |-> None, end |-> None, status |-> "ANY"]

JobIds == 1..MaxJobs

\* No ingestion launched yet: there is no response.
NoResponse == [JobId |-> None, Status |-> "NONE"]

\* DATA_UPLOAD_FREQUENCY, INPUT_TIMEZONE_OFFSET (of Etc/UTC),
\* COMPONENT_TIMESTAMP_DELIMITER and TIMESTAMP_FORMAT of the notebook.
NotebookConfig ==
    [upload_frequency |-> "PT5M", timezone_offset |-> "+00:00",
     component_delimiter |-> "_", timestamp_format |-> "yyyyMMddHHmmss"]

\* The callers of a scheduler object's lifecycle methods.
Callers == {1, 2}

\* A caller that is in no lifecycle method.
NoCall == [op |-> "none", name |-> None, phase |-> "idle", answer |-> "NONE"]

\* Nothing fired, nothing listed, no wait begun, no data ingested, no
\* input file looked for, no lifecycle call in progress.
InitObserver ==
    /\ executions = [f \in Fires |-> "NONE"]
    /\ view = <<>>
    /\ listArgs = NoFilter
    /\ listResult = <<>>
    /\ repeats = 0
    /\ wait_pc = "idle"
    /\ execution_summaries = <<>>
    /\ usedArgs = {}
    /\ lastSleep = 0
    /\ objects = [f \in Fires |-> <<>>]
    /\ agg_pc = "idle"
    /\ agg_i = 1
    /\ results_json = <<>>
    /\ results_df = <<>>
    /\ jobs = [j \in JobIds |-> "NONE"]
    /\ response = NoResponse
    /\ data_ingestion_job_id = None
    /\ data_ingestion_status = "NONE"
    /\ ing_pc = "launch"
    /\ starts = 0
    /\ ing_slept = 0
    /\ res_cfg = NotebookConfig
    /\ res_fire = None
    /\ input_files = {}
    /\ expected_key = ""
    /\ matched = {}
    /\ calls = [c \in Callers |-> NoCall]

Init ==
    /\ state = [n \in Names |-> "UNCREATED"]
    /\ params \in [Names -> Configs]
    /\ remote = [n \in Names |-> NoSchedule]
    /\ lastOp = [op |-> "none", name |-> 1, before |-> "UNCREATED",
                 transport |-> "none", outcome |-> "OK"]
    /\ InitObserver

(***************************************************************************)
(* The Schedule Lifecycle Controller.                                      *)
(***************************************************************************)

\* scheduler.set_parameters(**scheduler_params)
SetParameters(n, c) ==
    /\ UNCHANGED <<envVars, listVars, waitVars, aggVars, ingVars,
                   resVars, callVars>>
    /\ params' = [params EXCEPT ![n] = c]
    /\ lastOp' = Call("set_parameters", n, "none", "OK")
    /\ UNCHANGED <<state, remote>>

\* Mutant: the controller records the transition before the remote call
\* returns, and keeps it when the call fails.
AfterFailureOptimistic(n, target) == [state EXCEPT ![n] = target]

\* What the controller's state is after a remote call that failed.
AfterFailure(n, target) == state

\* scheduler.create(): UNCREATED --create--> RUNNING.  A schedule that
\* exists for the model is found by the controller itself or reported by
\* the service; DELETED is final.
Create(n) ==
    /\ UNCHANGED <<envVars, listVars, waitVars, aggVars, ingVars,
                   resVars, callVars>>
    /\ IF Exists(state[n])
       THEN /\ lastOp' = Call("create", n, "none", "AlreadyExists")
            /\ UNCHANGED lifeVars
       ELSE \E ok \in BOOLEAN :
            IF ~ok
            THEN /\ lastOp' = Call("create", n, "failed", "TransportFailure")
                 /\ state' = AfterFailure(n, "RUNNING")
                 /\ UNCHANGED <<params, remote>>
            ELSE IF ModelHasScheduler(remote, n)
            THEN /\ lastOp' = Call("create", n, "ok", "AlreadyExists")
                 /\ UNCHANGED lifeVars
            ELSE IF state[n] # "UNCREATED"
            THEN /\ lastOp' = Call("create", n, "ok", "InvalidState")
                 /\ UNCHANGED lifeVars
            ELSE /\ remote' = [remote EXCEPT
                         ![n] = [status |-> CreatedStatus, config |-> params[n]]]
                 /\ state' = [state EXCEPT ![n] = remote'[n].status]
                 /\ lastOp' = Call("create", n, "ok", "OK")
                 /\ UNCHANGED params

\* scheduler.start()
Start(n) ==
    /\ UNCHANGED <<envVars, listVars, waitVars, aggVars, ingVars,
                   resVars, callVars>>
    /\ IF ~CanStart(state[n])
       THEN /\ lastOp' = Call("start", n, "none", "InvalidState")
            /\ UNCHANGED lifeVars
       ELSE \E ok \in BOOLEAN :
            IF ~ok
            THEN /\ lastOp' = Call("start", n, "failed", "TransportFailure")
                 /\ state' = AfterFailure(n, "RUNNING")
                 /\ UNCHANGED <<params, remote>>
            ELSE /\ remote' = [remote EXCEPT ![n].status = "RUNNING"]
                 /\ state' = [state EXCEPT ![n] = "RUNNING"]
                 /\ lastOp' = Call("start", n, "ok", "OK")
                 /\ UNCHANGED params

\* scheduler.stop()
Stop(n) ==
    /\ UNCHANGED <<envVars, listVars, waitVars, aggVars, ingVars,
                   resVars, callVars>>
    /\ IF ~CanStop(state[n])
       THEN /\ lastOp' = Call("stop", n, "none", "InvalidState")
            /\ UNCHANGED lifeVars
       ELSE \E ok \in BOOLEAN :
            IF ~ok
            THEN /\ lastOp' = Call("stop", n, "failed", "TransportFailure")
                 /\ state' = AfterFailure(n, "STOPPED")
                 /\ UNCHANGED <<params, remote>>
            ELSE /\ remote' = [remote EXCEPT ![n].status = "STOPPED"]
                 /\ state' = [state EXCEPT ![n] = "STOPPED"]
                 /\ lastOp' = Call("stop", n, "ok", "OK")
                 /\ UNCHANGED params

\* scheduler.delete()
Delete(n) ==
    /\ UNCHANGED <<envVars, listVars, waitVars, aggVars, ingVars,
                   resVars, callVars>>
    /\ IF ~CanDelete(state[n])
       THEN /\ lastOp' = Call("delete", n, "none", "InvalidState")
            /\ UNCHANGED lifeVars
       ELSE \E ok \in BOOLEAN :
            IF ~ok
            THEN /\ lastOp' = Call("delete", n, "failed", "TransportFailure")
                 /\ state' = AfterFailure(n, "DELETED")
                 /\ UNCHANGED <<params, remote>>
            ELSE /\ remote' = [remote EXCEPT ![n] = NoSchedule]
                 /\ state' = [state EXCEPT ![n] = "DELETED"]
                 /\ lastOp' = Call("delete", n, "ok", "OK")
                 /\ UNCHANGED params

Next ==
    \/ \E n \in Names, c \in Configs : SetParameters(n, c)
    \/ \E n \in Names : Create(n)
    \/ \E n \in Names : Start(n)
    \/ \E n \in Names : Stop(n)
    \/ \E n \in Names : Delete(n)

Spec == Init /\ [][Next]_vars

(***************************************************************************)
(* Claims about the Schedule Lifecycle Controller.                         *)
(***************************************************************************)

\* C1: a create that succeeds was made on an UNCREATED schedule and leaves
\* it RUNNING, at the controller and at the service, in that same step; and
\* no schedule is ever in a state other than UNCREATED, RUNNING, STOPPED or
\* DELETED: a created schedule is RUNNING or STOPPED, never created but idle.
C1_CreateYieldsRunning ==
    /\ \A n \in Names :
          /\ state[n] \in ScheduleStates
          /\ remote[n].status \in {"NONE", "RUNNING", "STOPPED"}
          /\ (remote[n].status # "NONE") => Exists(state[n])
    /\ (lastOp.op = "create" /\ lastOp.outcome = "OK") =>
          /\ lastOp.before = "UNCREATED"
          /\ state[lastOp.name] = "RUNNING"
          /\ remote[lastOp.name].status = "RUNNING"

C1_Witness ==
    /\ lastOp.op = "create"
    /\ lastOp.outcome = "OK"
    /\ lastOp.before = "UNCREATED"
    /\ state[lastOp.name] = "RUNNING"

\* C2: a create whose call is answered while a schedule exists (RUNNING or
\* STOPPED) for the same model, under this name or another, fails with
\* AlreadyExists, and changes no schedule's state or configuration.
C2_CreateAlreadyExists ==
    [][\A n \in Names :
          ( /\ lastOp'.op = "create"
            /\ lastOp'.name = n
            /\ lastOp'.transport # "failed"
            /\ \E k \in Names : ModelOf(k) = ModelOf(n) /\ Exists(state[k]) )
          => ( /\ lastOp'.outcome = "AlreadyExists"
               /\ state' = state
               /\ remote' = remote
               /\ params' = params )]_vars

\* A create under another name of the same model was refused, while its
\* own parameters differ from the configuration of the existing schedule.
C2_Witness ==
    /\ lastOp.op = "create"
    /\ lastOp.outcome = "AlreadyExists"
    /\ lastOp.before = "UNCREATED"
    /\ \E k \in Names :
          /\ k # lastOp.name
          /\ ModelOf(k) = ModelOf(lastOp.name)
          /\ Exists(state[k])
          /\ remote[k].config # params[lastOp.name]

\* C3: a delete called on a RUNNING schedule fails with InvalidState and
\* the schedule is still RUNNING, at the controller and at the service.
C3_DeleteRunningRefused ==
    (lastOp.op = "delete" /\ lastOp.before = "RUNNING") =>
        /\ lastOp.outcome = "InvalidState"
        /\ state[lastOp.name] = "RUNNING"
        /\ remote[lastOp.name].status = "RUNNING"

C3_Witness ==
    /\ lastOp.op = "delete"
    /\ lastOp.before = "RUNNING"
    /\ lastOp.outcome = "InvalidState"
    /\ state[lastOp.name] = "RUNNING"

\* C4: a stop called on a RUNNING schedule whose remote call succeeds
\* returns OK and leaves it STOPPED; a delete called on a STOPPED schedule
\* whose remote call succeeds returns OK and leaves it DELETED.
C4_StopThenDelete ==
    /\ (lastOp.op = "stop" /\ lastOp.before = "RUNNING"
            /\ lastOp.transport # "failed") =>
          /\ lastOp.outcome = "OK"
          /\ state[lastOp.name] = "STOPPED"
          /\ remote[lastOp.name].status = "STOPPED"
    /\ (lastOp.op = "delete" /\ lastOp.before = "STOPPED"
            /\ lastOp.transport # "failed") =>
          /\ lastOp.outcome = "OK"
          /\ state[lastOp.name] = "DELETED"
          /\ remote[lastOp.name] = NoSchedule

\* DELETED is entered by delete alone, and STOPPED by stop alone: the
\* schedule was stopped and then deleted.
C4_Witness ==
    /\ lastOp.op = "delete"
    /\ lastOp.before = "STOPPED"
    /\ lastOp.outcome = "OK"
    /\ state[lastOp.name] = "DELETED"

\* C5: when the remote call of create, start, stop or delete fails in
\* transport, the step leaves every ScheduleState as it was and returns
\* TransportFailure.
C5_TransportFailureKeepsState ==
    [][lastOp'.transport = "failed" =>
          /\ lastOp'.op \in {"create", "start", "stop", "delete"}
          /\ lastOp'.outcome = "TransportFailure"
          /\ state' = state]_vars

\* Each of the four operations has failed in transport at some point: here
\* a delete, which is only sent for a STOPPED schedule.
C5_Witness ==
    /\ lastOp.op = "delete"
    /\ lastOp.transport = "failed"
    /\ lastOp.outcome = "TransportFailure"
    /\ state[lastOp.name] = "STOPPED"

\* C6: each model has at most one schedule that exists (RUNNING or
\* STOPPED), in the controllers' states and in the service's registry.
C6_OneSchedulePerModel ==
    \A n, k \in Names :
        (n # k /\ ModelOf(n) = ModelOf(k)) =>
            /\ ~(Exists(state[n]) /\ Exists(state[k]))
            /\ ~(remote[n].status # "NONE" /\ remote[k].status # "NONE")

\* Two names of one model have both been created, one after the other was
\* deleted, and a create under the deleted name has just been refused.
C6_Witness ==
    \E n, k \in Names :
        /\ n # k
        /\ ModelOf(n) = ModelOf(k)
        /\ Exists(state[n])
        /\ state[k] = "DELETED"

(***************************************************************************)
(* The service's inference executions.                                     *)
(***************************************************************************)

\* A call of the notebook on the observed scheduler.
Note(op) == Call(op, Observed, "ok", "OK")

\* The scheduler fires its next execution: they come in fire time order,
\* one per DATA_UPLOAD_FREQUENCY period, while the scheduler is running.
Fire(f) ==
    /\ remote[Observed].status = "RUNNING"
    /\ executions[f] = "NONE"
    /\ \A g \in Fires : g < f => executions[g] # "NONE"
    /\ executions' = [executions EXCEPT ![f] = "IN_PROGRESS"]
    /\ repeats' = 0
    /\ lastOp' = Note("fire")
    /\ UNCHANGED <<callVars, resVars, ingVars, lifeVars, objects, view, listArgs, listResult, waitVars,
                   aggVars>>

\* An execution in progress ends, in SUCCESS with its results.jsonl
\* written to the output location, or in FAILED with none.
Complete(f, st, lines) ==
    /\ executions[f] = "IN_PROGRESS"
    /\ executions' = [executions EXCEPT ![f] = st]
    /\ objects' = [objects EXCEPT ![f] = IF st = "SUCCESS" THEN lines ELSE <<>>]
    /\ repeats' = 0
    /\ lastOp' = Note("complete")
    /\ UNCHANGED <<callVars, resVars, ingVars, lifeVars, view, listArgs, listResult, waitVars, aggVars>>

(***************************************************************************)
(* The Execution Poller.                                                   *)
(***************************************************************************)

Summary(f) == [fire |-> f, status |-> executions[f]]

Matches(f, flt) ==
    /\ executions[f] # "NONE"
    /\ flt.start = None \/ f > flt.start
    /\ flt.end = None \/ f < flt.end
    /\ flt.status = "ANY" \/ executions[f] = flt.status

Range(q) == {q[i] : i \in 1..Len(q)}

\* The ListInferenceExecutions answers the service may give to a request:
\* the summaries that match, in an order that is the service's own.
Responses(flt) ==
    LET want == {Summary(f) : f \in {g \in Fires : Matches(g, flt)}}
    IN  {q \in UNION {[1..k -> want] : k \in {Cardinality(want)}} :
            Range(q) = want}

RECURSIVE InsertByFire(_, _)
InsertByFire(e, q) ==
    IF q = <<>> THEN <<e>>
    ELSE IF e.fire < Head(q).fire THEN <<e>> \o q
    ELSE <<Head(q)>> \o InsertByFire(e, Tail(q))

RECURSIVE SortedByFire(_)
SortedByFire(q) ==
    IF q = <<>> THEN <<>>
    ELSE InsertByFire(Head(q), SortedByFire(Tail(q)))

\* Mutant: the answer is returned in the order the service gave it.
OrderedAsAnswered(q) == q

\* The summaries of an answer, ordered by fire time ascending.
Ordered(q) == SortedByFire(q)

\* Mutant: the summaries of a call are added to the ones held.
AccumulateAppended(held, listed) == SortedByFire(held \o listed)

\* The accumulated view, keyed by fire time: a summary listed again
\* replaces the one held for its fire time.
Accumulate(held, listed) ==
    LET fires == {e.fire : e \in Range(listed)}
        kept  == SelectSeq(held, LAMBDA e : e.fire \notin fires)
    IN  SortedByFire(kept \o listed)

\* scheduler.list_inference_executions(start_time, end_time,
\* execution_status), answered by `answer`.
Listed(flt, answer) ==
    /\ listResult' = Ordered(answer)
    /\ listArgs' = flt
    /\ view' = Accumulate(view, listResult')
    /\ repeats' = IF repeats > 0 /\ listArgs = flt THEN 2 ELSE 1

\* A list call of the notebook outside the wait.
ListCall(flt) ==
    /\ wait_pc \in {"idle", "done"}
    /\ \E answer \in Responses(flt) : Listed(flt, answer)
    /\ lastOp' = Note("list")
    /\ UNCHANGED <<callVars, resVars, ingVars, lifeVars, envVars, waitVars, aggVars>>

\* Mutant: the wait narrows its query once it has listed.
AwaitArgsNarrowed ==
    IF usedArgs = {} THEN NoFilter ELSE [NoFilter EXCEPT !.status = "SUCCESS"]

\* start_time, end_time and execution_status the wait passes to list.
AwaitArgs == NoFilter

\* time.sleep(60)
SleepInterval == 60

\* execution_summaries = []
AwaitStart ==
    /\ wait_pc \in {"idle", "done"}
    /\ wait_pc' = "loop"
    /\ execution_summaries' = <<>>
    /\ usedArgs' = {}
    /\ lastSleep' = 0
    /\ lastOp' = Note("await")
    /\ UNCHANGED <<callVars, resVars, ingVars, lifeVars, envVars, listVars, aggVars>>

\* Mutant: the wait goes on until two executions are listed.
AwaitGoesOnShort(listed) == Len(listed) <= 1

\* if len(execution_summaries) == 0: ... sleep ... else: ... break
AwaitGoesOn(listed) == Len(listed) = 0

\* while len(execution_summaries) == 0: execution_summaries = list(...)
AwaitPoll ==
    /\ wait_pc = "loop"
    /\ IF Len(execution_summaries) = 0
       THEN /\ \E answer \in Responses(AwaitArgs) : Listed(AwaitArgs, answer)
            /\ execution_summaries' = listResult'
            /\ usedArgs' = usedArgs \cup {AwaitArgs}
            /\ wait_pc' = IF AwaitGoesOn(execution_summaries')
                          THEN "sleeping" ELSE "done"
       ELSE /\ wait_pc' = "done"
            /\ UNCHANGED <<listVars, execution_summaries, usedArgs>>
    /\ lastOp' = Note("list")
    /\ UNCHANGED <<callVars, resVars, ingVars, lifeVars, envVars, lastSleep, aggVars>>

\* time.sleep(60), then back to the test of the while
AwaitSleep ==
    /\ wait_pc = "sleeping"
    /\ lastSleep' = SleepInterval
    /\ wait_pc' = "loop"
    /\ lastOp' = Note("sleep")
    /\ UNCHANGED <<callVars, resVars, ingVars, lifeVars, envVars, listVars, execution_summaries, usedArgs,
                   aggVars>>

\* The notebook once scheduler.create() has returned: the observed
\* scheduler is RUNNING.
InitPoll ==
    /\ state = [n \in Names |-> IF n = Observed THEN "RUNNING" ELSE "UNCREATED"]
    /\ params = [n \in Names |-> "PT5M"]
    /\ remote = [n \in Names |->
                    IF n = Observed
                    THEN [status |-> CreatedStatus, config |-> "PT5M"]
                    ELSE NoSchedule]
    /\ lastOp = [op |-> "create", name |-> Observed, before |-> "UNCREATED",
                 transport |-> "ok", outcome |-> "OK"]
    /\ InitObserver

\* The poller reads no results.jsonl: its executions end with none.
NextPoll ==
    \/ \E f \in Fires : Fire(f)
    \/ \E f \in Fires, st \in {"SUCCESS", "FAILED"} : Complete(f, st, <<>>)
    \/ \E flt \in Filters : ListCall(flt)
    \/ AwaitStart
    \/ AwaitPoll
    \/ AwaitSleep

SpecPoll == InitPoll /\ [][NextPoll]_vars

\* The cell runs on: a wait that can list lists, one that sleeps wakes up.
\* Nothing obliges the service to fire an execution.
FairPoll == SpecPoll /\ WF_vars(AwaitPoll) /\ WF_vars(AwaitSleep)

(***************************************************************************)
(* Claims about the Execution Poller.                                      *)
(***************************************************************************)

IsAscending(q) == \A i \in 1..(Len(q) - 1) : q[i].fire < q[i + 1].fire

\* C7: the wait passes the same filters to list on every iteration; an
\* iteration whose answer is empty goes to sleep, and the wait sleeps only
\* then, for the same interval each time; the wait ends only on an answer
\* of at least one summary, and execution_summaries is then that answer.
C7_AwaitFirstResult ==
    /\ [](Cardinality(usedArgs) <= 1)
    /\ [](wait_pc = "sleeping" => execution_summaries = <<>>)
    /\ [][(wait_pc = "loop" /\ wait_pc' # "loop") =>
             /\ usedArgs' = {listArgs'}
             /\ (listResult' = <<>>) =>
                   (wait_pc' = "sleeping" /\ execution_summaries' = <<>>)
             /\ (listResult' # <<>>) =>
                   (wait_pc' = "done" /\ execution_summaries' = listResult')]_vars
    /\ [][(wait_pc = "sleeping" /\ wait_pc' # "sleeping") =>
             /\ wait_pc' = "loop"
             /\ lastSleep' = SleepInterval
             /\ lastSleep \in {0, lastSleep'}]_vars
    /\ [][(wait_pc # "done" /\ wait_pc' = "done") =>
             /\ wait_pc = "loop"
             /\ Len(listResult') >= 1
             /\ execution_summaries' = listResult']_vars

\* The wait has slept after an empty answer and then ended on an answer
\* that holds an execution.
C7_Witness ==
    /\ wait_pc = "done"
    /\ lastSleep = SleepInterval
    /\ usedArgs = {NoFilter}
    /\ Len(execution_summaries) >= 1
    /\ execution_summaries = listResult

\* C8: the wait always ends: once begun, it is eventually over, whether or
\* not the service ever reports an execution.
C8_WaitAlwaysEnds ==
    (wait_pc \in {"loop", "sleeping"}) ~> (wait_pc \in {"done", "cancelled"})

\* C9: a list call that follows a list call with the same filters, the
\* service's executions unchanged in between, returns the same sequence;
\* and every sequence returned is in ascending order of fire time.
C9_ListIdempotent ==
    /\ [](IsAscending(listResult))
    /\ [][(repeats' = 2 /\ lastOp'.op = "list") =>
             listResult' = listResult]_vars

\* Two executions have been listed twice over with the same filters.
C9_Witness ==
    /\ repeats = 2
    /\ lastOp.op = "list"
    /\ Len(listResult) = 2

(***************************************************************************)
(* The Result Aggregator: the cell that downloads each results.jsonl and   *)
(* builds results_df.                                                      *)
(***************************************************************************)

Stamps == 1..MaxTs

\* A line of results.jsonl that eval turns into a record: the executions
\* report no anomaly and an anomaly in turn.
Line(t, f) == [ok |-> TRUE, timestamp |-> t, prediction |-> f % 2]

\* A line eval raises on.
BadLine == [ok |-> FALSE, timestamp |-> 0, prediction |-> 0]

\* The index of a record that has no timestamp: pd.to_datetime gives NaT,
\* which sort_index() puts after every timestamp.
NaT == MaxTs + 1

\* A line eval accepts although it is no anomaly record: a dictionary
\* without the timestamp key.
NoStampLine(f) == [ok |-> TRUE, timestamp |-> NaT, prediction |-> f % 2]

LinesOf(f) == {Line(t, f) : t \in Stamps} \cup {BadLine, NoStampLine(f)}

\* The results.jsonl an execution may write: one or two lines, the rows
\* in the order of their timestamps. The line eval raises on, if any, is
\* the last one: no line after it is ever read.
InTimeOrder(lines) ==
    /\ \A i, j \in 1..Len(lines) :
           (i < j /\ lines[i].ok /\ lines[j].ok) =>
               lines[i].timestamp < lines[j].timestamp
    /\ \A i \in 1..(Len(lines) - 1) : lines[i].ok

ObjectsOf(f) ==
    {lines \in [{1} -> LinesOf(f)] \cup [{1, 2} -> LinesOf(f)] :
        InTimeOrder(lines)}

\* eval(line), for a line it accepts
Eval(line) == [timestamp |-> line.timestamp, prediction |-> line.prediction]

\* [eval(line) for line in f.readlines()]
Content(lines) == [i \in 1..Len(lines) |-> Eval(lines[i])]

Evaluates(lines) == \A i \in 1..Len(lines) : lines[i].ok

\* The exception eval raises on a line that is no expression.
EvalError == "SyntaxError"

\* results_df['timestamp'] exists when some record has the key.
HasTimestampColumn(records) ==
    \E i \in 1..Len(records) : records[i].timestamp # NaT

RECURSIVE InsertByTimestamp(_, _)
InsertByTimestamp(r, q) ==
    IF q = <<>> THEN <<r>>
    ELSE IF r.timestamp < Head(q).timestamp THEN <<r>> \o q
    ELSE <<Head(q)>> \o InsertByTimestamp(r, Tail(q))

RECURSIVE SortIndex(_)
SortIndex(q) ==
    IF q = <<>> THEN <<>>
    ELSE InsertByTimestamp(q[Len(q)], SortIndex(SubSeq(q, 1, Len(q) - 1)))

\* Mutant: the dataframe is left in the order the records were read.
DataFrameUnsorted(records) == records

\* pd.DataFrame(results_json), indexed by timestamp, sort_index()
DataFrame(records) == SortIndex(records)

\* Mutant: the cell keeps the records a run before it has read.
ResultsAtStartKept(held) == held

\* results_json = []: whatever the list held, the loop starts with none.
ResultsAtStart(held) == <<>>

\* Mutant: the cell reads the output of every execution that has not
\* failed.
HasOutputUnlessFailed(status) == status # "FAILED"

\* if status == 'SUCCESS': "We only get an output if the inference
\* execution is a sucess".
HasOutput(status) == status = "SUCCESS"

\* What one turn of the loop returns: `fetched` is the execution whose
\* CustomerResultObject it read and whose results.jsonl it copied, None
\* when it read no output reference.
Aggregated(f, outcome) ==
    [op |-> "aggregate", name |-> Observed, before |-> state[Observed],
     transport |-> "ok", outcome |-> outcome, fetched |-> f]

\* _ = scheduler.list_inference_executions(); results_json = []
AggStart ==
    /\ agg_pc \in {"idle", "done", "error"}
    /\ wait_pc \in {"idle", "done"}
    /\ \E answer \in Responses(NoFilter) : Listed(NoFilter, answer)
    /\ results_json' = ResultsAtStart(results_json)
    /\ agg_i' = 1
    /\ agg_pc' = "loop"
    /\ lastOp' = Note("list")
    /\ UNCHANGED <<callVars, resVars, ingVars, lifeVars, envVars, waitVars, results_df>>

\* for execution_summary in scheduler.execution_summaries: one summary
AggStep ==
    /\ agg_pc = "loop"
    /\ agg_i <= Len(view)
    /\ LET summary == view[agg_i]
           lines   == objects[summary.fire]
       IN  IF HasOutput(summary.status)
           THEN IF Evaluates(lines)
                THEN /\ results_json' = results_json \o Content(lines)
                     /\ agg_i' = agg_i + 1
                     /\ agg_pc' = "loop"
                     /\ lastOp' = Aggregated(summary.fire, "OK")
                ELSE /\ agg_pc' = "error"
                     /\ lastOp' = Aggregated(summary.fire, EvalError)
                     /\ UNCHANGED <<results_json, agg_i>>
           ELSE /\ agg_i' = agg_i + 1
                /\ lastOp' = Aggregated(None, "OK")
                /\ UNCHANGED <<results_json, agg_pc>>
    /\ UNCHANGED <<callVars, resVars, ingVars, lifeVars, envVars, listVars, waitVars, results_df>>

\* results_df = pd.DataFrame(results_json) ... sort_index(): with no
\* record that has a timestamp there is no such column, and the cell
\* ends in KeyError.
AggBuild ==
    /\ agg_pc = "loop"
    /\ agg_i > Len(view)
    /\ IF ~HasTimestampColumn(results_json)
       THEN /\ results_df' = <<>>
            /\ agg_pc' = "error"
            /\ lastOp' = Call("build", Observed, "ok", "KeyError")
       ELSE /\ results_df' = DataFrame(results_json)
            /\ agg_pc' = "done"
            /\ lastOp' = Note("build")
    /\ UNCHANGED <<callVars, resVars, ingVars, lifeVars, envVars, listVars, waitVars, results_json, agg_i>>

NextAgg ==
    \/ \E f \in Fires : Fire(f)
    \/ \E f \in Fires : Complete(f, "FAILED", <<>>)
    \/ \E f \in Fires : \E lines \in ObjectsOf(f) : Complete(f, "SUCCESS", lines)
    \/ AggStart
    \/ AggStep
    \/ AggBuild

SpecAgg == InitPoll /\ [][NextAgg]_vars

(***************************************************************************)
(* Claims about the Result Aggregator.                                     *)
(***************************************************************************)

\* Fire times of the SUCCESS executions among the summaries q.
SuccessOf(q) == {e.fire : e \in {x \in Range(q) : x.status = "SUCCESS"}}

StampsOf(lines) == {lines[i].timestamp : i \in 1..Len(lines)}

IsTimeline(q) ==
    \A i \in 1..(Len(q) - 1) : q[i].timestamp < q[i + 1].timestamp

\* C10: when the cell has merged exactly two SUCCESS executions whose
\* results hold disjoint timestamps, starting from no record, results_df
\* holds as many records as the two results together, these records and
\* no other, in ascending order of timestamp.
C10_AggregationRoundTrip ==
    agg_pc = "done" =>
        \A f, g \in Fires :
            ( /\ f < g
              /\ SuccessOf(view) = {f, g}
              /\ StampsOf(objects[f]) \cap StampsOf(objects[g]) = {} )
            => ( /\ Len(results_df) = Len(objects[f]) + Len(objects[g])
                 /\ Range(results_df) =
                        Range(Content(objects[f])) \cup Range(Content(objects[g]))
                 /\ IsTimeline(results_df) )

\* Two executions were merged, the later one holding the earlier row: the
\* records as read were not in order, and results_df holds the two of them.
C10_Witness ==
    /\ agg_pc = "done"
    /\ SuccessOf(view) = {1, 2}
    /\ StampsOf(objects[1]) \cap StampsOf(objects[2]) = {}
    /\ Len(results_df) = Len(objects[1]) + Len(objects[2])
    /\ results_df # results_json
    /\ IsTimeline(results_df)

\* The step of the loop that handles the summary at agg_i.
AggregatesAt(status) ==
    /\ agg_pc = "loop"
    /\ agg_i <= Len(view)
    /\ view[agg_i].status \in status
    /\ lastOp'.op = "aggregate"

\* C11: a step that aggregates a SUCCESS execution whose results hold a
\* timestamp already among the records merged so far raises
\* InconsistentTimeline and leaves the merged records as they were.
C11_CollisionRaises ==
    [][ ( /\ AggregatesAt({"SUCCESS"})
          /\ Evaluates(objects[view[agg_i].fire])
          /\ StampsOf(objects[view[agg_i].fire]) \cap StampsOf(results_json) # {} )
        => ( /\ lastOp'.outcome = "InconsistentTimeline"
             /\ results_json' = results_json ) ]_vars

\* A line that is no anomaly record: eval raises on it, or it has no
\* timestamp.
Malformed(line) == ~line.ok \/ line.timestamp = NaT

\* C12: a step that aggregates a SUCCESS execution whose results hold a
\* malformed record fails (MalformedResult), and none of the records of
\* these results joins the merged records.
C12_MalformedAllOrNothing ==
    [][ ( /\ AggregatesAt({"SUCCESS"})
          /\ \E i \in 1..Len(objects[view[agg_i].fire]) :
                 Malformed(objects[view[agg_i].fire][i]) )
        => ( /\ lastOp'.outcome # "OK"
             /\ results_json' = results_json ) ]_vars

\* Fire times of the FAILED executions among the summaries q.
FailedOf(q) == {e.fire : e \in {x \in Range(q) : x.status = "FAILED"}}

\* print('.', end=''): the dots the pass has printed, one for every
\* summary it has taken up, whatever its status. It is all the pass tells
\* of the executions apart from results_df.
Dots ==
    IF agg_pc = "error" /\ agg_i <= Len(view) THEN agg_i ELSE agg_i - 1

\* C13: a step that takes up a FAILED or IN_PROGRESS execution raises no
\* error, adds no record and goes on with the next summary; and a pass
\* that ends with FAILED executions in its list has reported their number.
C13_FailedSkippedAndReported ==
    [][ /\ AggregatesAt({"FAILED", "IN_PROGRESS"})
           => ( /\ lastOp'.outcome = "OK"
                /\ results_json' = results_json
                /\ agg_pc' = "loop"
                /\ agg_i' = agg_i + 1 )
        /\ (lastOp'.op = "build" /\ agg_pc' = "done" /\ FailedOf(view) # {})
           => Dots' = Cardinality(FailedOf(view)) ]_vars

\* Results that hold anomaly records only.
WellFormed(lines) == \A i \in 1..Len(lines) : ~Malformed(lines[i])

\* The results of execution f hold a timestamp that the results of another
\* SUCCESS execution among the summaries q hold.
Collides(f, q) ==
    \E g \in SuccessOf(q) \ {f} :
        StampsOf(objects[f]) \cap StampsOf(objects[g]) # {}

\* C21: a failure on the results of one execution does not end the pass:
\* when the pass is over, however it went, results_df holds the records of
\* every SUCCESS execution of its list whose results are well-formed and
\* collide with no other execution's.
C21_FailureDoesNotAbort ==
    agg_pc \in {"done", "error"} =>
        \A f \in SuccessOf(view) :
            (WellFormed(objects[f]) /\ ~Collides(f, view)) =>
                Range(Content(objects[f])) \subseteq Range(results_df)

\* No timestamp is the index of two rows of the dataframe q.
UniqueKeys(q) ==
    \A i, j \in 1..Len(q) :
        (i # j /\ q[i].timestamp # NaT) => q[i].timestamp # q[j].timestamp

\* C22: results_df never holds two rows under one timestamp, and a row
\* it holds it holds, unchanged, after every later step.
C22_UniqueKeysAppendOnly ==
    [][ /\ UniqueKeys(results_df')
        /\ Range(results_df) \subseteq Range(results_df') ]_vars

\* The rows of q that are the record r.
Copies(r, q) == Cardinality({i \in 1..Len(q) : q[i] = r})

\* The lines that are the record r in the results of the executions fired
\* at `fires`, taken together.
RECURSIVE CopiesIn(_, _)
CopiesIn(r, fires) ==
    IF fires = {} THEN 0
    ELSE LET f == CHOOSE x \in fires : TRUE
         IN  Copies(r, Content(objects[f])) + CopiesIn(r, fires \ {f})

\* Every record the results of the executions fired at `fires` hold.
RecordsOf(fires) == UNION {Range(Content(objects[f])) : f \in fires}

\* C23: however often the cell has run, and whether or not executions
\* appeared between two runs, when a run is over results_df holds each
\* record as often as the results of the SUCCESS executions of the list
\* hold it, each execution counted once; and no run takes a row away, so
\* what a run adds is the records of the executions not merged before.
C23_MergedOnce ==
    /\ [](agg_pc = "done" =>
            \A r \in Range(results_df) \cup RecordsOf(SuccessOf(view)) :
                Copies(r, results_df) = CopiesIn(r, SuccessOf(view)))
    /\ [][\A r \in Range(results_df) :
              Copies(r, results_df) <= Copies(r, results_df')]_vars

\* The cell has run again over a list that had not changed, of two SUCCESS
\* executions with well-formed results: results_df holds their records
\* once, as many rows as the two results have lines.
C23_Witness ==
    /\ agg_pc = "done"
    /\ repeats = 2
    /\ SuccessOf(view) = {1, 2}
    /\ WellFormed(objects[1]) /\ WellFormed(objects[2])
    /\ Len(results_df) = Len(objects[1]) + Len(objects[2])

\* C26: a turn of the loop that reads an output reference and copies the
\* object reads those of the summary it is at, whose status is SUCCESS,
\* as is the status of that execution at the service: on a FAILED or
\* IN_PROGRESS summary it reads none.
C26_OutputReadOnlyForSuccess ==
    [][ (lastOp'.op = "aggregate" /\ lastOp'.fetched # None) =>
            /\ lastOp'.fetched = view[agg_i].fire
            /\ view[agg_i].status = "SUCCESS"
            /\ executions[lastOp'.fetched] = "SUCCESS" ]_vars

\* The pass has copied the results of one execution and has just passed
\* over an execution in progress, reading nothing for it.
C26_Witness ==
    /\ lastOp.op = "aggregate"
    /\ lastOp.fetched = None
    /\ agg_pc = "loop"
    /\ agg_i = 3
    /\ view[1].status = "SUCCESS"
    /\ view[2].status = "IN_PROGRESS"
    /\ results_json = Content(objects[1])

(***************************************************************************)
(* Claims about the lifecycle as a whole and about the accumulated view.   *)
(***************************************************************************)

\* The call that moves schedule n from one ScheduleState to another.
Moves(n, from, op, to) ==
    /\ state[n] = from
    /\ state'[n] = to
    /\ lastOp'.op = op
    /\ lastOp'.name = n

\* C19: every step that changes the ScheduleState of a schedule is one of
\* UNCREATED to RUNNING by create, RUNNING to STOPPED by stop, STOPPED to
\* RUNNING by start, STOPPED to DELETED by delete; so DELETED is never
\* left and is entered from STOPPED only.
C19_FourTransitions ==
    [][ \A n \in Names :
            state'[n] # state[n] =>
                \/ Moves(n, "UNCREATED", "create", "RUNNING")
                \/ Moves(n, "RUNNING", "stop", "STOPPED")
                \/ Moves(n, "STOPPED", "start", "RUNNING")
                \/ Moves(n, "STOPPED", "delete", "DELETED") ]_vars

\* A deleted schedule has just been called again and is DELETED still,
\* while another schedule is STOPPED.
C19_Witness ==
    /\ \E n \in Names :
           state[n] = "DELETED" /\ lastOp.name = n /\ lastOp.before = "DELETED"
    /\ \E n \in Names : state[n] = "STOPPED"

\* C20: the accumulated view holds at most one summary per fire time.
C20_ViewKeyedByFireTime ==
    \A i, j \in 1..Len(view) : i # j => view[i].fire # view[j].fire

\* The view holds more executions than the last call returned: it was
\* accumulated over several calls, the last one a repeated one.
C20_Witness ==
    /\ Len(view) = 2
    /\ Len(listResult) = 1
    /\ repeats = 2
    /\ \E i \in 1..Len(view) : view[i].status = "SUCCESS"

(***************************************************************************)
(* The Ingestion Job Controller: the cell that launches the ingestion and  *)
(* the cell that monitors it (dataset creation notebook).                  *)
(***************************************************************************)

\* A job id the service has not given out yet: the lowest one.
FreshJob(j) ==
    /\ jobs[j] = "NONE"
    /\ \A k \in JobIds : k < j => jobs[k] # "NONE"

\* response = lookout_dataset.ingest_data(BUCKET, PREFIX): one
\* StartDataIngestionJob call, answered with the id of the new job. The
\* cell is run at the start and again by whoever wants another ingestion
\* after the monitoring has ended.
IngestData ==
    /\ ing_pc \in {"launch", "done"}
    /\ \E j \in JobIds :
          /\ FreshJob(j)
          /\ jobs' = [jobs EXCEPT ![j] = "IN_PROGRESS"]
          /\ response' = [JobId |-> j, Status |-> jobs'[j]]
    /\ starts' = IF ing_pc = "done" THEN 1 ELSE starts + 1
    /\ ing_pc' = "launched"
    /\ lastOp' = Note("ingest_data")
    /\ UNCHANGED <<callVars, resVars, lifeVars, envVars, listVars, waitVars,
                   aggVars,
                   data_ingestion_job_id, data_ingestion_status, ing_slept>>

\* The job ends at the service.
JobEnds(j, st) ==
    /\ jobs[j] = "IN_PROGRESS"
    /\ jobs' = [jobs EXCEPT ![j] = st]
    /\ lastOp' = Note("job")
    /\ UNCHANGED <<callVars, resVars, lifeVars, envVars, listVars, waitVars,
                   aggVars, response,
                   data_ingestion_job_id, data_ingestion_status, ing_pc,
                   starts, ing_slept>>

\* Mutant: the monitoring goes on until the job has succeeded.
IngestNextUntilSuccess(status) ==
    IF status # "SUCCESS" THEN "sleeping" ELSE "done"

\* Mutant: a failed job is submitted again.
IngestNextResubmitting(status) ==
    IF status = "IN_PROGRESS" THEN "sleeping"
    ELSE IF status = "FAILED" THEN "launch" ELSE "done"

\* while data_ingestion_status == 'IN_PROGRESS': where the cell goes once
\* it holds a status.
IngestNext(status) ==
    IF status = "IN_PROGRESS" THEN "sleeping" ELSE "done"

\* time.sleep(60)
IngestSleepInterval == 60

\* data_ingestion_job_id = response['JobId'];
\* data_ingestion_status = response['Status']; first test of the loop
IngestMonitor ==
    /\ ing_pc = "launched"
    /\ data_ingestion_job_id' = response.JobId
    /\ data_ingestion_status' = response.Status
    /\ ing_slept' = 0
    /\ ing_pc' = IngestNext(data_ingestion_status')
    /\ lastOp' = Note("monitor")
    /\ UNCHANGED <<callVars, resVars, lifeVars, envVars, listVars, waitVars,
                   aggVars, jobs,
                   response, starts>>

\* time.sleep(60), first statement of the loop's body
IngestSleep ==
    /\ ing_pc = "sleeping"
    /\ ing_slept' = IngestSleepInterval
    /\ ing_pc' = "describe"
    /\ lastOp' = Note("sleep")
    /\ UNCHANGED <<callVars, resVars, lifeVars, envVars, listVars, waitVars,
                   aggVars, jobs,
                   response, data_ingestion_job_id, data_ingestion_status,
                   starts>>

\* lookout_client.describe_data_ingestion_job(JobId=data_ingestion_job_id);
\* data_ingestion_status = ...['Status']; next test of the loop
IngestDescribe ==
    /\ ing_pc = "describe"
    /\ data_ingestion_status' = jobs[data_ingestion_job_id]
    /\ ing_pc' = IngestNext(data_ingestion_status')
    /\ lastOp' = Note("describe")
    /\ UNCHANGED <<callVars, resVars, lifeVars, envVars, listVars, waitVars,
                   aggVars, jobs,
                   response, data_ingestion_job_id, starts, ing_slept>>

\* No scheduler yet: the data is ingested before a model is trained.
InitIngest ==
    /\ state = [n \in Names |-> "UNCREATED"]
    /\ params = [n \in Names |-> "PT5M"]
    /\ remote = [n \in Names |-> NoSchedule]
    /\ lastOp = [op |-> "none", name |-> Observed, before |-> "UNCREATED",
                 transport |-> "none", outcome |-> "OK"]
    /\ InitObserver

NextIngest ==
    \/ IngestData
    \/ \E j \in JobIds, st \in {"SUCCESS", "FAILED"} : JobEnds(j, st)
    \/ IngestMonitor
    \/ IngestSleep
    \/ IngestDescribe

SpecIngest == InitIngest /\ [][NextIngest]_vars

\* The cells, once run, run on: the notebook does not stop between the
\* statements of a cell.
FairIngest ==
    /\ SpecIngest
    /\ WF_vars(IngestMonitor)
    /\ WF_vars(IngestSleep)
    /\ WF_vars(IngestDescribe)

(***************************************************************************)
(* Claims about the Ingestion Job Controller.                              *)
(***************************************************************************)

Terminal == {"SUCCESS", "FAILED"}

\* C14: the monitoring cell asks for the status again only while the
\* status it holds is IN_PROGRESS, and only after a sleep of the fixed
\* interval; when its loop has ended the status it holds is SUCCESS or
\* FAILED and is the status of the job; and once the job it monitors is
\* terminal, the loop ends.
C14_PollsUntilTerminal ==
    /\ [](ing_pc = "done" =>
             /\ data_ingestion_status \in Terminal
             /\ data_ingestion_status = jobs[data_ingestion_job_id])
    /\ [][ lastOp'.op = "describe" =>
              /\ data_ingestion_status = "IN_PROGRESS"
              /\ ing_slept = IngestSleepInterval ]_vars
    /\ [][ (ing_pc \in {"launched", "describe"} /\ ing_pc' = "done") =>
              data_ingestion_status' \in Terminal ]_vars
    /\ (ing_pc \in {"launched", "sleeping", "describe"}
          /\ jobs[response.JobId] \in Terminal) ~> (ing_pc = "done")

\* The loop has slept, asked again and ended on a failed job.
C14_Witness ==
    /\ ing_pc = "done"
    /\ lastOp.op = "describe"
    /\ ing_slept = IngestSleepInterval
    /\ data_ingestion_status = "FAILED"

\* C15: from the launch of an ingestion to the end of its monitoring
\* StartDataIngestionJob has been called once, whatever the job's end;
\* when the job has failed the monitoring ends holding FAILED, and no
\* step of the monitoring adds a job at the service.
C15_StartedOnce ==
    /\ [](ing_pc # "launch" => starts = 1)
    /\ []((ing_pc = "done" /\ jobs[data_ingestion_job_id] = "FAILED") =>
             data_ingestion_status = "FAILED")
    /\ [][ lastOp'.op \in {"monitor", "sleep", "describe"} =>
              /\ jobs' = jobs
              /\ ing_pc' # "launch" ]_vars

\* The monitoring has ended on a failed job, one job started.
C15_Witness ==
    /\ ing_pc = "done"
    /\ data_ingestion_status = "FAILED"
    /\ starts = 1
    /\ Cardinality({j \in JobIds : jobs[j] # "NONE"}) = 1

(***************************************************************************)
(* The Time & Filename Resolver: the parameters of the scheduler and the   *)
(* input file the scheduler looks for when it wakes up.                    *)
(***************************************************************************)

\* "Allowed values are PT5M, PT10M, PT15M, PT30M and PT1H"
Frequencies == {"PT5M", "PT10M", "PT15M", "PT30M", "PT1H"}

\* "The allowed values -, _ or ' '"
Delimiters == {"-", "_", " "}

\* "The allowed values EPOCH, yyyy-MM-dd-HH-mm-ss or yyyyMMddHHmmss"
Formats == {"EPOCH", "yyyy-MM-dd-HH-mm-ss", "yyyyMMddHHmmss"}

\* Two digits, as %H, %M, HH, mm, dd and MM give them.
Pad2(n) == IF n < 10 THEN "0" \o ToString(n) ELSE ToString(n)

\* Mutant: every quarter of an hour is allowed.
AllowedZonesByQuarter ==
    {sg \o Pad2(k \div 4) \o ":" \o Pad2((k % 4) * 15) :
        sg \in {"+", "-"}, k \in 0..48}

\* "+00:00, +00:30, +01:00, ... +11:30, +12:00, -00:00, -00:30, -01:00,
\* ... -11:30, -12:00"
AllowedZones ==
    {sg \o Pad2(k \div 2) \o ":" \o Pad2((k % 2) * 30) :
        sg \in {"+", "-"}, k \in 0..24}

\* datetime.datetime.now(current_timezone).strftime('%z'), for a time zone
\* that is `off` minutes from UTC
Strftime_z(off) ==
    LET a == IF off < 0 THEN 0 - off ELSE off
    IN  (IF off < 0 THEN "-" ELSE "+") \o Pad2(a \div 60) \o Pad2(a % 60)

\* INPUT_TIMEZONE_OFFSET = tz_offset[:3] + ':' + tz_offset[3:]
TimezoneOffset(tz_offset) ==
    SubSeq(tz_offset, 1, 3) \o ":" \o SubSeq(tz_offset, 4, Len(tz_offset))

\* Minutes from UTC of the time zones put in current_timezone: Etc/UTC,
\* Asia/Calcutta, America/Sao_Paulo, Asia/Kathmandu.
UtcOffsets == {0, 330, 0 - 180, 345}

Zones == {TimezoneOffset(Strftime_z(off)) : off \in UtcOffsets}

\* The parameters a notebook may pass to set_parameters: allowed values,
\* and for each parameter one that is not allowed (of the time zones it
\* is the one of Asia/Kathmandu).
Candidates ==
    [upload_frequency : {"PT5M", "PT1H", "PT7M"},
     timezone_offset : Zones,
     component_delimiter : {"_", "-", "/"},
     timestamp_format : Formats \cup {"yyyyMMdd"}]

\* The check of the parameters against their allowed values.
ValidConfig(c) ==
    /\ c.upload_frequency \in Frequencies
    /\ c.timezone_offset \in AllowedZones
    /\ c.component_delimiter \in Delimiters
    /\ c.timestamp_format \in Formats

\* The result of a call that was passed the parameters c.
Asked(op, c, transport, outcome) ==
    [op |-> op, name |-> Observed, before |-> state[Observed],
     transport |-> transport, outcome |-> outcome, asked |-> c]

\* scheduler.set_parameters(**scheduler_params), then scheduler.create(),
\* before the scheduler first wakes up: the parameters are checked first,
\* and the scheduler is created with them when they are allowed.
SetUp(c) ==
    /\ res_fire = None
    /\ IF ValidConfig(c)
       THEN /\ res_cfg' = c
            /\ lastOp' = Asked("create", c, "ok", "OK")
       ELSE /\ res_cfg' = res_cfg
            /\ lastOp' = Asked("set_parameters", c, "none",
                               "InvalidConfiguration")
    /\ UNCHANGED <<res_fire, input_files, expected_key, matched>>
    /\ UNCHANGED <<callVars, lifeVars, envVars, listVars, waitVars, aggVars,
                   ingVars>>

\* The component the input files are named after.
Component == "centrifugal-pump"

\* Times are minutes since 2021-01-01 00:00 UTC, within the year 2021.
Year == 2021

MonthDays == <<31, 28, 31, 30, 31, 30, 31, 31, 30, 31, 30, 31>>

RECURSIVE DaysBefore(_)
DaysBefore(month) ==
    IF month = 1 THEN 0 ELSE DaysBefore(month - 1) + MonthDays[month - 1]

\* datetime.datetime(2021, month, day, hh, mm)
At(month, day, hh, mm) ==
    (DaysBefore(month) + day - 1) * 1440 + hh * 60 + mm

\* Month and day of the d-th day of the year (d from 0), from month m on.
RECURSIVE MonthOf(_, _)
MonthOf(d, m) ==
    IF d < MonthDays[m] THEN [month |-> m, day |-> d + 1]
    ELSE MonthOf(d - MonthDays[m], m + 1)

\* Seconds from 1970-01-01 to 2021-01-01.
Epoch2021 == 1609459200

\* The time t written in the timestamp format fmt.
FormatStamp(t, fmt) ==
    LET md == MonthOf(t \div 1440, 1)
        hh == (t % 1440) \div 60
        mm == t % 60
    IN  CASE fmt = "yyyyMMddHHmmss" ->
                 ToString(Year) \o Pad2(md.month) \o Pad2(md.day)
                     \o Pad2(hh) \o Pad2(mm) \o "00"
          [] fmt = "yyyy-MM-dd-HH-mm-ss" ->
                 ToString(Year) \o "-" \o Pad2(md.month) \o "-"
                     \o Pad2(md.day) \o "-" \o Pad2(hh) \o "-"
                     \o Pad2(mm) \o "-00"
          [] fmt = "EPOCH" -> ToString(Epoch2021 + t * 60)

\* The length of the upload period, in minutes.
Minutes(freq) ==
    CASE freq = "PT5M" -> 5
      [] freq = "PT10M" -> 10
      [] freq = "PT15M" -> 15
      [] freq = "PT30M" -> 30
      [] freq = "PT1H" -> 60

DigitOf(ch) == CHOOSE d \in 0..9 : ToString(d) = ch

RECURSIVE NumberOf(_)
NumberOf(digits) ==
    IF Len(digits) = 0 THEN 0
    ELSE NumberOf(SubSeq(digits, 1, Len(digits) - 1)) * 10
             + DigitOf(SubSeq(digits, Len(digits), Len(digits)))

\* The minutes a time zone offset such as +05:30 stands for.
OffsetMinutes(tz) ==
    LET v == NumberOf(SubSeq(tz, 2, 3)) * 60 + NumberOf(SubSeq(tz, 5, 6))
    IN  IF SubSeq(tz, 1, 1) = "-" THEN 0 - v ELSE v

\* Mutant: the scheduler looks for the file of the time it wakes up at.
ExpectedStampAtFire(T, freq) == T

\* "a filename that contains a timestamp set to the previous step"
ExpectedStamp(T, freq) == T - Minutes(freq)

\* Mutant: the time zone offset is not applied.
LocalAsUtc(t, tz) == t

\* "1pm + 5H30 = 6.30pm": the time t (UTC) in the time zone tz.
Local(t, tz) == t + OffsetMinutes(tz)

\* The name of the input file that holds the data of the time u (UTC).
FileKey(u, cfg) ==
    Component \o cfg.component_delimiter
        \o FormatStamp(Local(u, cfg.timezone_offset), cfg.timestamp_format)
        \o ".csv"

\* The file name the scheduler looks for when it wakes up at T.
ExpectedKey(T, cfg) == FileKey(ExpectedStamp(T, cfg.upload_frequency), cfg)

\* Times the scheduler wakes up at.
FireTimes == {At(1, 27, 9, 15), At(4, 5, 13, 5), At(2, 28, 23, 0)}

\* The input files hold data of these many minutes before the wake up.
Backs == {0, 5, 60}

\* The scheduler wakes up at T with the files `present` in the input
\* location, and ingests the one it looks for.
Wake(T, present) ==
    /\ res_fire' = T
    /\ input_files' = present
    /\ expected_key' = ExpectedKey(T, res_cfg)
    /\ matched' = {f \in present : f = expected_key'}
    /\ lastOp' = Note("wake")
    /\ UNCHANGED <<res_cfg, callVars, lifeVars, envVars, listVars, waitVars,
                   aggVars, ingVars>>

NextResolve ==
    \/ \E c \in Candidates : SetUp(c)
    \/ \E T \in FireTimes :
          \E present \in SUBSET {FileKey(T - b, res_cfg) : b \in Backs} :
             Wake(T, present)

SpecResolve == InitPoll /\ [][NextResolve]_vars

(***************************************************************************)
(* Claims about the Time & Filename Resolver.                              *)
(***************************************************************************)

\* The timestamp a file name carries, between the delimiter and .csv.
KeyStamp(key) == SubSeq(key, Len(Component) + 2, Len(key) - 4)

\* The time a timestamp written in the format fmt stands for.
ParseStamp(stamp, fmt) ==
    CASE fmt = "yyyyMMddHHmmss" ->
             At(NumberOf(SubSeq(stamp, 5, 6)), NumberOf(SubSeq(stamp, 7, 8)),
                NumberOf(SubSeq(stamp, 9, 10)), NumberOf(SubSeq(stamp, 11, 12)))
      [] fmt = "yyyy-MM-dd-HH-mm-ss" ->
             At(NumberOf(SubSeq(stamp, 6, 7)), NumberOf(SubSeq(stamp, 9, 10)),
                NumberOf(SubSeq(stamp, 12, 13)), NumberOf(SubSeq(stamp, 15, 16)))
      [] fmt = "EPOCH" -> (NumberOf(stamp) - Epoch2021) \div 60

\* The minutes from UTC of the time zones of the model.
ZoneMinutes(tz) ==
    CASE tz = "+00:00" -> 0
      [] tz = "+05:30" -> 330
      [] tz = "-03:00" -> 0 - 180

\* The time (UTC) of the data a file of this name holds.
KeyTime(key) ==
    ParseStamp(KeyStamp(key), res_cfg.timestamp_format)
        - ZoneMinutes(res_cfg.timezone_offset)

C17_InvalidConfiguration ==
    [][ ( /\ lastOp'.op \in {"set_parameters", "create"}
          /\ \/ lastOp'.asked.upload_frequency
                    \notin {"PT5M", "PT10M", "PT15M", "PT30M", "PT1H"}
             \/ lastOp'.asked.component_delimiter \notin {"-", "_", " "}
             \/ lastOp'.asked.timestamp_format
                    \notin {"EPOCH", "yyyy-MM-dd-HH-mm-ss", "yyyyMMddHHmmss"}
             \/ SubSeq(lastOp'.asked.timezone_offset, 5, 6)
                    \notin {"00", "30"} )
        => ( /\ lastOp'.outcome = "InvalidConfiguration"
             /\ lastOp'.transport = "none"
             /\ res_cfg' = res_cfg
             /\ res_cfg' # lastOp'.asked ) ]_vars

\* The offset of Asia/Kathmandu was refused after other parameters than
\* the notebook's had been set.
C17_Witness ==
    /\ lastOp.outcome = "InvalidConfiguration"
    /\ lastOp.asked.timezone_offset = "+05:45"
    /\ lastOp.asked.upload_frequency = "PT5M"
    /\ res_cfg.upload_frequency = "PT1H"

\* C18: the file name the scheduler looks for is the component, the
\* delimiter, a timestamp and .csv; the timestamp is in the format set and
\* stands for the time of the file (UTC) plus the time zone offset. With
\* +05:30 the file of 2021-04-05 13:00 UTC carries 20210405183000.
C18_LocalTimeKey ==
    res_fire # None =>
        LET n == Len(Component)
            k == Len(expected_key)
        IN  /\ SubSeq(expected_key, 1, n) = Component
            /\ SubSeq(expected_key, n + 1, n + 1) = res_cfg.component_delimiter
            /\ SubSeq(expected_key, k - 3, k) = ".csv"
            /\ KeyStamp(expected_key) =
                   FormatStamp(ParseStamp(KeyStamp(expected_key),
                                          res_cfg.timestamp_format),
                               res_cfg.timestamp_format)
            /\ ParseStamp(KeyStamp(expected_key), res_cfg.timestamp_format)
                   = res_fire - Minutes(res_cfg.upload_frequency)
                        + ZoneMinutes(res_cfg.timezone_offset)
            /\ ( /\ res_fire = At(4, 5, 13, 5)
                 /\ res_cfg = [NotebookConfig EXCEPT
                                  !.timezone_offset = "+05:30"] )
               => expected_key = "centrifugal-pump_20210405183000.csv"

\* The scheduler woke up at 13:05 UTC with the offset +05:30 and looked
\* for the file of 18:30.
C18_Witness ==
    /\ res_fire = At(4, 5, 13, 5)
    /\ res_cfg.timezone_offset = "+05:30"
    /\ res_cfg.upload_frequency = "PT5M"
    /\ expected_key = "centrifugal-pump_20210405183000.csv"
    /\ matched = {expected_key}

(***************************************************************************)
(* Two callers of the lifecycle methods of the scheduler objects: each     *)
(* method is a synchronous remote call made under the schedule's lock.     *)
(***************************************************************************)

LifecycleOps == {"create", "start", "stop", "delete"}

\* A caller holds the lock of a schedule from the moment its method goes
\* on to the remote call until the method returns.
Holds(c, n) == calls[c].phase \in {"sent", "answered"} /\ calls[c].name = n

\* Mutant: the lifecycle methods take no lock.
UnlockedAlways(n) == TRUE

\* The lock of schedule n is free.
Unlocked(n) == \A c \in Callers : ~Holds(c, n)

\* The check a method makes before it calls the service: what it returns
\* at once, or "OK" when it goes on to the call.
LocalCheck(op, st) ==
    CASE op = "create" -> IF Exists(st) THEN "AlreadyExists" ELSE "OK"
      [] op = "start"  -> IF CanStart(st) THEN "OK" ELSE "InvalidState"
      [] op = "stop"   -> IF CanStop(st) THEN "OK" ELSE "InvalidState"
      [] op = "delete" -> IF CanDelete(st) THEN "OK" ELSE "InvalidState"

\* What the service answers to a call that reaches it: it rejects a call
\* the schedule's status does not allow.
RemoteAnswer(op, n) ==
    CASE op = "create" ->
             IF ModelHasScheduler(remote, n) THEN "AlreadyExists"
             ELSE IF state[n] # "UNCREATED" THEN "InvalidState"
             ELSE "OK"
      [] op = "start"  ->
             IF CanStart(remote[n].status) THEN "OK" ELSE "InvalidState"
      [] op = "stop"   ->
             IF CanStop(remote[n].status) THEN "OK" ELSE "InvalidState"
      [] op = "delete" ->
             IF CanDelete(remote[n].status) THEN "OK" ELSE "InvalidState"

\* The service's registry once it has done what the call asks.
Applied(op, n) ==
    CASE op = "create" ->
             [remote EXCEPT
                 ![n] = [status |-> CreatedStatus, config |-> params[n]]]
      [] op = "start"  -> [remote EXCEPT ![n].status = "RUNNING"]
      [] op = "stop"   -> [remote EXCEPT ![n].status = "STOPPED"]
      [] op = "delete" -> [remote EXCEPT ![n] = NoSchedule]

\* The ScheduleState the operation leads to: create takes the status the
\* service reports.
Target(op, n) ==
    CASE op = "create" -> remote[n].status
      [] op = "start"  -> "RUNNING"
      [] op = "stop"   -> "STOPPED"
      [] op = "delete" -> "DELETED"

\* Caller c calls a lifecycle method of scheduler n and waits for the
\* schedule's lock.
Invoke(c, op, n) ==
    /\ calls[c].phase = "idle"
    /\ calls' = [calls EXCEPT ![c] = [op |-> op, name |-> n,
                                      phase |-> "waiting", answer |-> "NONE"]]
    /\ UNCHANGED <<lifeVars, lastOp, envVars, listVars, waitVars, aggVars,
                   ingVars, resVars>>

\* The method takes the lock and checks the ScheduleState: it returns at
\* once when the state does not allow the operation, and sends the remote
\* call otherwise.
Acquire(c) ==
    /\ calls[c].phase = "waiting"
    /\ Unlocked(calls[c].name)
    /\ LET op    == calls[c].op
           n     == calls[c].name
           local == LocalCheck(op, state[n])
       IN  IF local # "OK"
           THEN /\ lastOp' = Call(op, n, "none", local)
                /\ calls' = [calls EXCEPT ![c] = NoCall]
           ELSE /\ calls' = [calls EXCEPT ![c].phase = "sent"]
                /\ UNCHANGED lastOp
    /\ UNCHANGED <<lifeVars, envVars, listVars, waitVars, aggVars, ingVars,
                   resVars>>

\* The remote call: it fails in transport, or the service answers it.
Serve(c) ==
    /\ calls[c].phase = "sent"
    /\ LET op == calls[c].op
           n  == calls[c].name
       IN  \E ok \in BOOLEAN :
               LET a == IF ok THEN RemoteAnswer(op, n) ELSE "TransportFailure"
               IN  /\ remote' = IF a = "OK" THEN Applied(op, n) ELSE remote
                   /\ calls' = [calls EXCEPT ![c].phase = "answered",
                                             ![c].answer = a]
    /\ UNCHANGED <<state, params, lastOp, envVars, listVars, waitVars,
                   aggVars, ingVars, resVars>>

\* The method records the transition the service confirmed, releases the
\* lock and returns.
Return(c) ==
    /\ calls[c].phase = "answered"
    /\ LET op == calls[c].op
           n  == calls[c].name
           a  == calls[c].answer
       IN  /\ state' = IF a = "OK"
                       THEN [state EXCEPT ![n] = Target(op, n)]
                       ELSE AfterFailure(n, Target(op, n))
           /\ lastOp' = Call(op, n,
                             IF a = "TransportFailure" THEN "failed" ELSE "ok",
                             a)
    /\ calls' = [calls EXCEPT ![c] = NoCall]
    /\ UNCHANGED <<params, remote, envVars, listVars, waitVars, aggVars,
                   ingVars, resVars>>

\* The schedules the two callers work on: the observed one and the other
\* name of its model.
Contended == {n \in Names : ModelOf(n) = ModelOf(Observed)}

\* The scheduler objects as constructed, with the notebook's parameters.
InitCallers ==
    /\ state = [n \in Names |-> "UNCREATED"]
    /\ params = [n \in Names |-> "PT5M"]
    /\ remote = [n \in Names |-> NoSchedule]
    /\ lastOp = [op |-> "none", name |-> Observed, before |-> "UNCREATED",
                 transport |-> "none", outcome |-> "OK"]
    /\ InitObserver

NextCallers ==
    \/ \E c \in Callers, op \in LifecycleOps, n \in Contended :
           Invoke(c, op, n)
    \/ \E c \in Callers : Acquire(c)
    \/ \E c \in Callers : Serve(c)
    \/ \E c \in Callers : Return(c)

SpecCallers == InitCallers /\ [][NextCallers]_vars

(***************************************************************************)
(* Claims about concurrent callers of the lifecycle.                       *)
(***************************************************************************)

\* The callers whose remote call for schedule n is in flight: sent, and
\* the method not yet returned.
InFlight(n) == {c \in Callers : Holds(c, n)}

\* The ScheduleState of scheduler n is the state of the service's schedule:
\* RUNNING or STOPPED as the service has it, UNCREATED or DELETED when the
\* service has none.
Agrees(n) ==
    remote[n].status = (IF Exists(state[n]) THEN state[n] ELSE "NONE")

\* C25: with two callers in the lifecycle methods of a schedule, at most
\* one remote call for the schedule is in flight at any moment, and
\* whenever none is in flight the controller's ScheduleState is the state
\* of the service's schedule.
C25_LifecycleSerialized ==
    \A n \in Names :
        /\ Cardinality(InFlight(n)) <= 1
        /\ (InFlight(n) = {}) => Agrees(n)

\* Both callers are in a method of the observed schedule: the stop of one
\* has been answered, so that the service has it STOPPED and the
\* controller RUNNING still, and the start of the other waits for the lock.
C25_Witness ==
    \E c, d \in Callers :
        /\ calls[c] = [op |-> "stop", name |-> Observed,
                       phase |-> "answered", answer |-> "OK"]
        /\ calls[d] = [op |-> "start", name |-> Observed,
                       phase |-> "waiting", answer |-> "NONE"]
        /\ state[Observed] = "RUNNING"
        /\ remote[Observed].status = "STOPPED"

====
